---- MODULE Spec2Model ----
(***************************************************************************)
(* Model of img-sanitizer: the scan / digest / dedupe / copy / sanitize    *)
(* pipeline of img_sanitizer.sanitizer.Sanitizer, the Image record, the    *)
(* Report counters and the CLI `sanitize` command that drives one run.     *)
(*                                                                         *)
(* File names are sequences of one-character strings, file contents are    *)
(* sequences of small integers ("bytes"), directories are strings.         *)
(***************************************************************************)
EXTENDS Integers, Sequences, FiniteSets, TLC

(* ------------------------------ bounds --------------------------------- *)
MaxWorkers == 2      \* largest --worker value explored
MaxRuns == 2         \* CLI invocations in sequence on the same trees
MaxFileLen == 3      \* longest file content explored by the digest loop
MaxBuffer == 3       \* largest buffer_size explored by the digest loop
MaxSample == 4       \* largest sample_size explored by the digest loop

(* ------------------------- program constants --------------------------- *)
HexLen == 40         \* length of hashlib.sha1().hexdigest()
ShortLen == 12       \* Image.short_sha: sha1[:12]
None == -1           \* Python None for `int | None` values

Bytes == {0, 1}

(* ------------------------------ characters ----------------------------- *)
UpperChars ==
  <<"A","B","C","D","E","F","G","H","I","J","K","L","M",
    "N","O","P","Q","R","S","T","U","V","W","X","Y","Z">>
LowerChars ==
  <<"a","b","c","d","e","f","g","h","i","j","k","l","m",
    "n","o","p","q","r","s","t","u","v","w","x","y","z">>
HexLower ==
  <<"0","1","2","3","4","5","6","7","8","9","a","b","c","d","e","f">>
DigitChars == {"0","1","2","3","4","5","6","7","8","9"}
HexLowerSet == {HexLower[i] : i \in 1..16}

\* str.lower() on one character
LowerChar(c) ==
  IF \E i \in 1..26 : UpperChars[i] = c
    THEN LowerChars[CHOOSE i \in 1..26 : UpperChars[i] = c]
    ELSE c

\* str.lower()
Lower(s) == [i \in 1..Len(s) |-> LowerChar(s[i])]

Min(a, b) == IF a <= b THEN a ELSE b

(* ------------------------------ pathlib -------------------------------- *)
\* index of the last "." of a name, 0 when there is none (str.rfind + 1)
LastDot(name) ==
  IF \E i \in 1..Len(name) : name[i] = "."
    THEN CHOOSE i \in 1..Len(name) :
           name[i] = "." /\ \A j \in (i+1)..Len(name) : name[j] # "."
    ELSE 0

\* PurePath.suffix: the last dot onwards, unless the dot starts or ends the name
Suffix(name) ==
  LET i == LastDot(name)
  IN IF 1 < i /\ i < Len(name) THEN SubSeq(name, i, Len(name)) ELSE <<>>

\* PurePath.stem: the name without its suffix
Stem(name) ==
  LET i == LastDot(name)
  IN IF 1 < i /\ i < Len(name) THEN SubSeq(name, 1, i - 1) ELSE name

(* ------------------------------ hashlib -------------------------------- *)
\* An injective numbering of byte strings: stands for the message SHA-1 digests.
RECURSIVE Code(_)
Code(bytes) ==
  IF bytes = <<>> THEN 0
  ELSE Code(SubSeq(bytes, 1, Len(bytes) - 1)) * (Cardinality(Bytes) + 1)
       + bytes[Len(bytes)] + 1

\* hashlib.sha1(bytes).hexdigest(): 40 lower-case hex characters, a function
\* of the bytes fed to the hash, distinct for distinct inputs.
Sha1Hex(bytes) ==
  LET c == Code(bytes)
  IN [i \in 1..HexLen |->
        HexLower[(IF i <= 6 THEN (c \div (16 ^ (i - 1))) % 16
                            ELSE (c + i) % 16) + 1]]

(* ------------------------- Sanitizer._sha1_file ------------------------ *)
\* f.read(n) at offset pos: up to n bytes, the rest of the file when n < 0
FileRead(content, pos, n) ==
  IF n < 0 THEN SubSeq(content, pos + 1, Len(content))
  ELSE SubSeq(content, pos + 1, Min(Len(content), pos + n))

\* state of the loop before its first iteration: h = sha1(), remaining = sample_size
ShaStart(sample_size) ==
  [pos |-> 0, remaining |-> sample_size, fed |-> <<>>, iters |-> 0, pc |-> "loop"]

\* variant of ShaIter: the chunk size is never reduced to what remains of the
\* sample
ShaIter_untruncated(content, buffer_size, st) ==
  LET chunk == FileRead(content, st.pos, buffer_size)
      read == [st EXCEPT !.pos = st.pos + Len(chunk), !.iters = st.iters + 1]
  IN IF chunk = <<>> THEN [read EXCEPT !.pc = "done"]
     ELSE LET upd == [read EXCEPT !.fed = st.fed \o chunk]
          IN IF st.remaining = None THEN upd
             ELSE LET rem == st.remaining - Len(chunk)
                  IN [upd EXCEPT !.remaining = rem,
                                 !.pc = IF rem <= 0 THEN "done" ELSE "loop"]

\* one iteration of `while True:`
ShaIter(content, buffer_size, st) ==
  LET chunk_size == IF st.remaining = None THEN buffer_size
                    ELSE Min(buffer_size, st.remaining)
      chunk == FileRead(content, st.pos, chunk_size)
      read == [st EXCEPT !.pos = st.pos + Len(chunk), !.iters = st.iters + 1]
  IN IF chunk = <<>> THEN [read EXCEPT !.pc = "done"]
     ELSE LET upd == [read EXCEPT !.fed = st.fed \o chunk]
          IN IF st.remaining = None THEN upd
             ELSE LET rem == st.remaining - Len(chunk)
                  IN [upd EXCEPT !.remaining = rem,
                                 !.pc = IF rem <= 0 THEN "done" ELSE "loop"]

RECURSIVE ShaLoop(_, _, _)
ShaLoop(content, buffer_size, st) ==
  IF st.pc = "done" THEN st
  ELSE ShaLoop(content, buffer_size, ShaIter(content, buffer_size, st))

\* _sha1_file(filepath, buffer_size, sample_size) on a readable file
Sha1File(content, buffer_size, sample_size) ==
  Sha1Hex(ShaLoop(content, buffer_size, ShaStart(sample_size)).fed)

(* ------------------------------ Image ---------------------------------- *)
\* variant of Extension: the suffix keeps its case
Extension_keepCase(name) == Suffix(name)

\* Image.extension
Extension(name) == Lower(Suffix(name))

\* Image.short_sha
ShortSha(sha1) == SubSeq(sha1, 1, ShortLen)

(* ------------------------- the two directory trees --------------------- *)
DefaultBufferSize == 65536   \* _sha1_file(buffer_size=65536)

\* The metadata of a JPEG file: the value of the Orientation tag of the 0th
\* IFD (None when the tag is absent), the other EXIF content present (tags of
\* any IFD, the thumbnail), and the ICC profile of the file (None when absent).
Meta(orientation, tags, icc) ==
  [orientation |-> orientation, tags |-> tags, icc |-> icc]

NoMeta == Meta(None, {}, None)

\* Entries of the source tree in rglob order: directory relative to the source
\* root, file name, content (pixel data) and metadata.  The first and second
\* candidate have the same content under different directories and
\* extensions; the first and third have the same directory, extension and
\* first byte; the fourth entry is not a JPEG.  The Orientation tag is a
\* SHORT: 6 is "rotate 90", 0 is a value cameras write for "unknown".
SourceTree ==
  << [dir |-> <<"a">>, name |-> <<"o","n","e",".","j","p","g">>,
      content |-> <<0, 1>>,
      meta |-> Meta(6, {"Make", "DateTimeOriginal", "GPS", "thumbnail"}, 7)],
     [dir |-> <<"b">>, name |-> <<"t","w","o",".","J","P","E","G">>,
      content |-> <<0, 1>>,
      meta |-> Meta(0, {"GPS"}, 9)],
     [dir |-> <<"a">>, name |-> <<"t","r","i",".","j","p","g">>,
      content |-> <<0, 0>>,
      meta |-> Meta(None, {"Make"}, None)],
     [dir |-> <<"a">>, name |-> <<"n","o","t","e",".","t","x","t">>,
      content |-> <<1>>,
      meta |-> NoMeta] >>

FileIds == 1..Len(SourceTree)

\* values of --hash-sample-size explored: absent, or one byte
SampleSizes == {None, 1}

\* what _sha1_file(src_path, sample_size=n) returns for each source file
SourceDigest ==
  [f \in FileIds |->
     [n \in SampleSizes |->
        Sha1File(SourceTree[f].content, DefaultBufferSize, n)]]

\* Image.extension of each source file
SourceExtension == [f \in FileIds |-> Extension(SourceTree[f].name)]

\* run(): f.suffix.lower() in {".jpg", ".jpeg"}
IsCandidate(name) ==
  Lower(Suffix(name)) \in { <<".","j","p","g">>, <<".","j","p","e","g">> }

RECURSIVE SelectIds(_, _)
SelectIds(i, n) ==
  IF i > n THEN <<>>
  ELSE IF IsCandidate(SourceTree[i].name) THEN <<i>> \o SelectIds(i + 1, n)
       ELSE SelectIds(i + 1, n)

\* run(): files = [f for f in source.rglob("*") if ...]
ScanSource == SelectIds(1, Len(SourceTree))

Range(s) == {s[i] : i \in 1..Len(s)}

\* a file of the destination tree: content, whether the copy completed
\* (content and stat written), the state of its EXIF block and its metadata
DestFile(content, whole, exif, meta) ==
  [content |-> content, whole |-> whole, exif |-> exif, meta |-> meta]

OneFile(dir, name, rec) ==
  [p \in {[dir |-> dir, name |-> name]} |-> rec]

EmptyTree == [p \in {} |-> DestFile(<<>>, TRUE, "original", NoMeta)]

\* Destination trees a run may start from: empty; holding the first
\* candidate under its digest name; holding a file named
\* <digits>_<HEX DIGEST>.png for the third candidate.
InitialDests ==
  { EmptyTree,
    OneFile(<<"a">>,
            ShortSha(Sha1Hex(SourceTree[1].content)) \o <<".","j","p","g">>,
            DestFile(<<1, 1>>, TRUE, "stripped", NoMeta)),
    OneFile(<<>>,
            <<"1","2","_">>
              \o [i \in 1..ShortLen |->
                    LET c == ShortSha(Sha1Hex(SourceTree[3].content))[i]
                    IN IF \E k \in 1..26 : LowerChars[k] = c
                         THEN UpperChars[CHOOSE k \in 1..26 : LowerChars[k] = c]
                         ELSE c]
              \o <<".","p","n","g">>,
            DestFile(<<0>>, TRUE, "original", Meta(3, {"GPS"}, None))) }

(* --------------------- run(): the Destination Index -------------------- *)
\* [a-f0-9] under re.IGNORECASE
IsHex(c) == LowerChar(c) \in HexLowerSet

\* ([a-f0-9]{12}) matching at position i
HexRunAt(s, i) ==
  /\ i >= 1
  /\ i + ShortLen - 1 <= Len(s)
  /\ \A k \in i..(i + ShortLen - 1) : IsHex(s[k])

\* ^\d+_ : the index of the underscore closing a leading run of digits, else 0
DigitPrefixEnd(s) ==
  LET n == Cardinality({i \in 1..Len(s) : \A k \in 1..i : s[k] \in DigitChars})
  IN IF n >= 1 /\ n + 1 <= Len(s) /\ s[n + 1] = "_" THEN n + 1 ELSE 0

\* variant of HashPatternSearch: the pattern without its optional prefix
\* group, ([a-f0-9]{12}) alone
HashPatternSearch_noPrefix(stem) ==
  IF \E i \in 1..Len(stem) : HexRunAt(stem, i)
    THEN LET i == CHOOSE i \in 1..Len(stem) :
                    HexRunAt(stem, i) /\ \A j \in 1..(i - 1) : ~HexRunAt(stem, j)
         IN SubSeq(stem, i, i + ShortLen - 1)
  ELSE <<>>

\* hash_pattern.search(stem): group(1) of the leftmost match, <<>> for no match.
\* At position 0 the optional prefix is tried first (greedy `?`).
HashPatternSearch(stem) ==
  LET p == DigitPrefixEnd(stem)
  IN IF p > 0 /\ HexRunAt(stem, p + 1)
       THEN SubSeq(stem, p + 1, p + ShortLen)
     ELSE IF \E i \in 1..Len(stem) : HexRunAt(stem, i)
       THEN LET i == CHOOSE i \in 1..Len(stem) :
                       HexRunAt(stem, i) /\ \A j \in 1..(i - 1) : ~HexRunAt(stem, j)
            IN SubSeq(stem, i, i + ShortLen - 1)
     ELSE <<>>

\* run(): existing_hashes, from every file of the destination tree
BuildIndex(tree) ==
  { Lower(HashPatternSearch(Stem(p.name))) :
      p \in { q \in DOMAIN tree : HashPatternSearch(Stem(q.name)) # <<>> } }

(* ------------------------ Sanitizer._copy_image ------------------------ *)
\* variant of DstPath: the leaf name takes one digest character too few
DstPath_short11(f, sha1) ==
  [dir |-> SourceTree[f].dir,
   name |-> SubSeq(sha1, 1, ShortLen - 1) \o SourceExtension[f]]

\* dst_path = dest / relative_dir / f"{image.short_sha}{image.extension}"
DstPath(f, sha1) ==
  [dir |-> SourceTree[f].dir,
   name |-> ShortSha(sha1) \o SourceExtension[f]]

\* the tree after writing file rec at path p (created or overwritten)
PutFile(tree, p, rec) ==
  [q \in DOMAIN tree \cup {p} |-> IF q = p THEN rec ELSE tree[q]]

\* the roots given on the command line: two directories, neither inside the
\* other
SourceRoot == <<"in">>
DestRoot == <<"out">>

\* image.path: the source file f as found by source.rglob
SrcAbs(f) == [dir |-> SourceRoot \o SourceTree[f].dir, name |-> SourceTree[f].name]

\* final_dir = self.dest / relative_dir; dst_path = final_dir / new_name
DstAbs(p) == [dir |-> DestRoot \o p.dir, name |-> p.name]

(* ------------------------ Sanitizer._clean_exif ------------------------ *)
\* truth value of a Python `int | bytes | None`: None and 0 are false
Truthy(v) == v # None /\ v # 0

\* piexif.load(path): the content of the Exif segment of the file.  The
\* dictionary it returns has the keys "0th", "Exif", "GPS", "Interop", "1st"
\* and "thumbnail", and no key "ICC".
PiexifLoad(meta) == [orientation |-> meta.orientation, tags |-> meta.tags]

\* new_exif: the empty IFDs, plus what the two `if` statements copy over
MinimalExif(exif_dict) ==
  LET orientation == exif_dict.orientation   \* exif_dict["0th"].get(Orientation)
      icc_profile == None                    \* exif_dict.get("ICC")
  IN [orientation |-> IF Truthy(orientation) THEN orientation ELSE None,
      icc |-> IF Truthy(icc_profile) THEN icc_profile ELSE None]

\* piexif.insert(piexif.dump(new_exif), path): dump serialises the IFDs and
\* the thumbnail of new_exif; insert replaces the Exif segment of the file
\* and leaves its other segments, the ICC profile among them, as they are
PiexifInsert(new_exif, meta) == Meta(new_exif.orientation, {}, meta.icc)

\* the metadata of a file after a successful _clean_exif
CleanExif(meta) == PiexifInsert(MinimalExif(PiexifLoad(meta)), meta)

(* ------------------------------- state --------------------------------- *)
VARIABLES
  worker,            \* Sanitizer.worker: size of the thread pool
  hash_sample_size,  \* Sanitizer._hash_sample_size (None or a byte count)
  report,            \* Sanitizer.report: [copied, ignored, failed]
  destTree,          \* files under the destination root
  mainPc,            \* position of the main thread in cli.sanitize / run()
  files,             \* run(): the list of candidate files
  existing_hashes,   \* run(): the Destination Index
  queue,             \* work items of the executor not yet started
  wk,                \* per worker thread: pc, file, sha1, dst_path, register
  interrupts,        \* KeyboardInterrupts raised in the main thread in this run
  displays,          \* number of report.display() calls in this run
  shown,             \* the counters as rendered by report.display()
  run,               \* number of the CLI invocation (1-based)
  trace,             \* history: per file, the steps performed on it in this run
  takenBy,           \* history: per file, the workers that started it
  prev,              \* history of the previous invocation: run() returned
                     \* normally; every candidate was processed with no
                     \* digest or copy failure
  sha,               \* _sha1_file called on its own: content, buffer_size,
                     \* sample_size and the loop state
  written            \* history: the absolute paths this run created or wrote

vars == <<worker, hash_sample_size, report, destTree, mainPc, files,
          existing_hashes, queue, wk, interrupts, displays, shown, run,
          trace, takenBy, prev, sha, written>>

Workers == 1..worker

\* a KeyboardInterrupt was raised in this run
interrupted == interrupts > 0

\* Report.__init__
NewReport == [copied |-> 0, ignored |-> 0, failed |-> 0]

NoPath == [dir |-> <<>>, name |-> <<>>]
IdleWorker == [pc |-> "idle", file |-> 0, sha1 |-> <<>>, dst |-> NoPath, tmp |-> 0]

ShaIdle == [content |-> <<>>, buffer_size |-> 1, sample_size |-> None,
            st |-> [ShaStart(None) EXCEPT !.pc = "off"], result |-> <<>>]

\* Sanitizer.__init__ as called by cli.sanitize
Init ==
  /\ worker \in 1..MaxWorkers
  /\ hash_sample_size \in SampleSizes
  /\ report = NewReport
  /\ destTree \in InitialDests
  /\ mainPc = "start"
  /\ files = <<>>
  /\ existing_hashes = {}
  /\ queue = <<>>
  /\ wk = [w \in 1..MaxWorkers |-> IdleWorker]
  /\ interrupts = 0
  /\ displays = 0
  /\ shown = NewReport
  /\ run = 1
  /\ trace = [f \in FileIds |-> <<>>]
  /\ takenBy = [f \in FileIds |-> <<>>]
  /\ prev = [returned |-> FALSE, clean |-> FALSE]
  /\ sha = ShaIdle
  /\ written = {}

Log(f, e) == trace' = [trace EXCEPT ![f] = Append(@, e)]

(* ------------------------- Sanitizer.run (main thread) ----------------- *)
\* run() up to the submission of every file to the executor
RunSetup ==
  /\ mainPc = "start"
  /\ files' = ScanSource
  /\ existing_hashes' = BuildIndex(destTree)
  /\ queue' = ScanSource
  /\ mainPc' = "pool"
  /\ UNCHANGED <<worker, hash_sample_size, report, destTree, wk, interrupts,
                 displays, shown, run, trace, takenBy, prev, sha, written>>

\* an OSError while scanning the trees leaves run() before any dispatch
RunSetupFail ==
  /\ mainPc = "start"
  /\ mainPc' = "except"
  /\ UNCHANGED <<worker, hash_sample_size, report, destTree, files,
                 existing_hashes, queue, wk, interrupts, displays, shown, run,
                 trace, takenBy, prev, sha, written>>

AllIdle == \A w \in Workers : wk[w].pc = "idle"

\* the result iterator is exhausted and the executor has shut down: run() returns
RunReturn ==
  /\ mainPc = "pool"
  /\ queue = <<>>
  /\ AllIdle
  /\ mainPc' = "returned"
  /\ UNCHANGED <<worker, hash_sample_size, report, destTree, files,
                 existing_hashes, queue, wk, interrupts, displays, shown, run,
                 trace, takenBy, prev, sha, written>>

\* variant of Interrupt: the interrupt also ends the operations in progress
Interrupt_abandons ==
  /\ mainPc \in {"start", "pool", "shutdown"}
  /\ interrupts' = interrupts + 1
  /\ queue' = <<>>
  /\ wk' = [w \in 1..MaxWorkers |-> IdleWorker]
  /\ mainPc' = IF mainPc = "pool" THEN "shutdown" ELSE "except_kb"
  /\ UNCHANGED <<worker, hash_sample_size, report, destTree, files,
                 existing_hashes, displays, shown, run, trace, takenBy,
                 prev, sha, written>>

\* KeyboardInterrupt in the main thread inside run().  Before the dispatch it
\* leaves run() at once.  After the dispatch executor.__exit__ begins
\* shutdown(wait=True): when the interrupt is raised inside the result
\* iterator of executor.map (the main thread waiting for a result), the
\* iterator first cancels the futures not yet started; raised outside it
\* (before its first result is asked for, or in the progress wrapper) nothing
\* is cancelled and the pool goes on to drain the queue.  A further interrupt
\* during the wait of shutdown ends the join of the threads, and run() is
\* left while they still run.
Interrupt ==
  /\ mainPc \in {"start", "pool", "shutdown"}
  /\ interrupts' = interrupts + 1
  /\ \/ mainPc = "pool" /\ queue' = <<>>
     \/ queue' = queue
  /\ mainPc' = IF mainPc = "pool" THEN "shutdown" ELSE "except_kb"
  /\ UNCHANGED <<worker, hash_sample_size, report, destTree, files,
                 existing_hashes, wk, displays, shown, run, trace, takenBy,
                 prev, sha, written>>

\* variant of ShutdownDone: the executor is shut down without waiting for its
\* threads
ShutdownDone_noWait ==
  /\ mainPc = "shutdown"
  /\ mainPc' = "except_kb"
  /\ UNCHANGED <<worker, hash_sample_size, report, destTree, files,
                 existing_hashes, queue, wk, interrupts, displays, shown, run,
                 trace, takenBy, prev, sha, written>>

\* executor.__exit__: shutdown(wait=True) has joined the threads, which end
\* once the queue is drained; then the interrupt leaves run()
ShutdownDone ==
  /\ mainPc = "shutdown"
  /\ queue = <<>>
  /\ AllIdle
  /\ mainPc' = "except_kb"
  /\ UNCHANGED <<worker, hash_sample_size, report, destTree, files,
                 existing_hashes, queue, wk, interrupts, displays, shown, run,
                 trace, takenBy, prev, sha, written>>

(* ------------------------------ cli.sanitize --------------------------- *)
\* the except clauses and the finally block: report.display()
CliFinally ==
  /\ mainPc \in {"returned", "except_kb", "except"}
  /\ displays' = displays + 1
  /\ shown' = report
  /\ mainPc' = "done"
  /\ UNCHANGED <<worker, hash_sample_size, report, destTree, files,
                 existing_hashes, queue, wk, interrupts, run, trace, takenBy,
                 prev, sha, written>>

\* run() returned normally (no setup error, no interrupt)
RunReturned == displays = 1 /\ files = ScanSource /\ ~interrupted

\* every candidate was taken and neither its digest nor its copy failed
RunWasClean ==
  /\ files = ScanSource
  /\ \A i \in 1..Len(files) :
       /\ Len(takenBy[files[i]]) = 1
       /\ \A k \in 1..Len(trace[files[i]]) :
            trace[files[i]][k] \notin {"digest!", "copy_open!", "copy!"}

\* the command is invoked again on the same source and destination trees,
\* after the process of the previous invocation has exited (the interpreter
\* joins the threads of the pool before it exits)
Rerun ==
  /\ mainPc = "done"
  /\ queue = <<>>
  /\ AllIdle
  /\ run < MaxRuns
  /\ run' = run + 1
  /\ prev' = [returned |-> RunReturned, clean |-> RunWasClean]
  /\ report' = NewReport
  /\ mainPc' = "start"
  /\ files' = <<>>
  /\ existing_hashes' = {}
  /\ queue' = <<>>
  /\ interrupts' = 0
  /\ displays' = 0
  /\ shown' = NewReport
  /\ trace' = [f \in FileIds |-> <<>>]
  /\ takenBy' = [f \in FileIds |-> <<>>]
  /\ written' = {}
  /\ UNCHANGED <<worker, hash_sample_size, destTree, wk, sha>>

(* ----------------------- worker threads: _process_file ----------------- *)
\* what no worker step changes
WorkerFrame ==
  UNCHANGED <<worker, hash_sample_size, mainPc, files, existing_hashes,
              interrupts, displays, shown, run, prev, sha>>

Goto(w, pc) == wk' = [wk EXCEPT ![w].pc = pc]

\* an idle thread of the pool starts the next work item.  The threads are
\* interchangeable, so the idle thread that dequeues is named by the lowest
\* free number.
Take(w) ==
  /\ wk[w].pc = "idle"
  /\ \A v \in 1..(w - 1) : wk[v].pc # "idle"
  /\ queue # <<>>
  /\ queue' = Tail(queue)
  /\ wk' = [wk EXCEPT ![w] = [IdleWorker EXCEPT !.pc = "digest",
                                                 !.file = Head(queue)]]
  /\ takenBy' = [takenBy EXCEPT ![Head(queue)] = Append(@, w)]
  /\ UNCHANGED <<report, destTree, trace, written>>
  /\ WorkerFrame

\* sha1 = self._sha1_file(src_path, sample_size=...); image = Image(...)
DigestOk(w) ==
  /\ wk[w].pc = "digest"
  /\ wk' = [wk EXCEPT ![w].pc = "check",
                      ![w].sha1 = SourceDigest[wk[w].file][hash_sample_size]]
  /\ Log(wk[w].file, "digest")
  /\ UNCHANGED <<report, destTree, queue, takenBy, written>>
  /\ WorkerFrame

\* variant of DigestFail: the error leaves _process_file and ends the thread's
\* work item without a counter increment or a return
DigestFail_propagates(w) ==
  /\ wk[w].pc = "digest"
  /\ Goto(w, "raised")
  /\ Log(wk[w].file, "digest!")
  /\ UNCHANGED <<report, destTree, queue, takenBy, written>>
  /\ WorkerFrame

\* _sha1_file raises (the file cannot be opened or read): except Exception
DigestFail(w) ==
  /\ wk[w].pc = "digest"
  /\ Goto(w, "failed_read")
  /\ Log(wk[w].file, "digest!")
  /\ UNCHANGED <<report, destTree, queue, takenBy, written>>
  /\ WorkerFrame

\* variant of CheckIndex: the check also sees the files copied in this run
CheckIndex_liveIndex(w) ==
  /\ wk[w].pc = "check"
  /\ IF ShortSha(wk[w].sha1) \in existing_hashes \cup BuildIndex(destTree)
       THEN Goto(w, "ignored_read") /\ Log(wk[w].file, "hit")
       ELSE Goto(w, "copy_open") /\ Log(wk[w].file, "miss")
  /\ UNCHANGED <<report, destTree, queue, takenBy, written>>
  /\ WorkerFrame

\* variant of CheckIndex: the index is not consulted
CheckIndex_neverHit(w) ==
  /\ wk[w].pc = "check"
  /\ Goto(w, "copy_open") /\ Log(wk[w].file, "miss")
  /\ UNCHANGED <<report, destTree, queue, takenBy, written>>
  /\ WorkerFrame

\* if image.short_sha in existing_hashes: ... else go on to _copy_image
CheckIndex(w) ==
  /\ wk[w].pc = "check"
  /\ IF ShortSha(wk[w].sha1) \in existing_hashes
       THEN Goto(w, "ignored_read") /\ Log(wk[w].file, "hit")
       ELSE Goto(w, "copy_open") /\ Log(wk[w].file, "miss")
  /\ UNCHANGED <<report, destTree, queue, takenBy, written>>
  /\ WorkerFrame

\* _copy_image up to the point where shutil.copy2 has opened dst_path for
\* writing: the destination file exists and is empty
CopyOpenOk(w) ==
  /\ wk[w].pc = "copy_open"
  /\ LET dst == DstPath(wk[w].file, wk[w].sha1)
     IN /\ wk' = [wk EXCEPT ![w].pc = "copy_write", ![w].dst = dst]
        /\ destTree' = PutFile(destTree, dst, DestFile(<<>>, FALSE, "original", NoMeta))
        /\ written' = written \cup {DstAbs(dst)}
  /\ Log(wk[w].file, "copy_open")
  /\ UNCHANGED <<report, queue, takenBy>>
  /\ WorkerFrame

\* variant of CopyOpenFail: the destination file is created before the error
CopyOpenFail_creates(w) ==
  /\ wk[w].pc = "copy_open"
  /\ Goto(w, "failed_read")
  /\ destTree' = PutFile(destTree, DstPath(wk[w].file, wk[w].sha1),
                         DestFile(<<>>, FALSE, "original", NoMeta))
  /\ written' = written \cup {DstAbs(DstPath(wk[w].file, wk[w].sha1))}
  /\ Log(wk[w].file, "copy_open!")
  /\ UNCHANGED <<report, queue, takenBy>>
  /\ WorkerFrame

\* mkdir or the opening of either file raises: nothing was written
CopyOpenFail(w) ==
  /\ wk[w].pc = "copy_open"
  /\ Goto(w, "failed_read")
  /\ Log(wk[w].file, "copy_open!")
  /\ UNCHANGED <<report, destTree, queue, takenBy, written>>
  /\ WorkerFrame

\* variant of CopyWriteOk: the copy adds its short digest to the index
CopyWriteOk_indexes(w) ==
  /\ wk[w].pc = "copy_write"
  /\ Goto(w, "clean_exif")
  /\ destTree' = PutFile(destTree, wk[w].dst,
                         DestFile(SourceTree[wk[w].file].content, TRUE, "original",
                                  SourceTree[wk[w].file].meta))
  /\ written' = written \cup {DstAbs(wk[w].dst)}
  /\ existing_hashes' = existing_hashes \cup {ShortSha(wk[w].sha1)}
  /\ Log(wk[w].file, "copy")
  /\ UNCHANGED <<report, queue, takenBy>>
  /\ UNCHANGED <<worker, hash_sample_size, mainPc, files, interrupts, displays,
                 shown, run, prev, sha>>

\* shutil.copy2 writes the content and the stat data; _copy_image returns
CopyWriteOk(w) ==
  /\ wk[w].pc = "copy_write"
  /\ Goto(w, "clean_exif")
  /\ destTree' = PutFile(destTree, wk[w].dst,
                         DestFile(SourceTree[wk[w].file].content, TRUE, "original",
                                  SourceTree[wk[w].file].meta))
  /\ written' = written \cup {DstAbs(wk[w].dst)}
  /\ Log(wk[w].file, "copy")
  /\ UNCHANGED <<report, queue, takenBy>>
  /\ WorkerFrame

\* variant of CopyWriteFail: the error is swallowed and the sanitize step runs
\* on the incomplete copy
CopyWriteFail_continues(w) ==
  /\ wk[w].pc = "copy_write"
  /\ Goto(w, "clean_exif")
  /\ Log(wk[w].file, "copy!")
  /\ UNCHANGED <<report, destTree, queue, takenBy, written>>
  /\ WorkerFrame

\* shutil.copy2 raises after it created dst_path (write or copystat error):
\* the file stays as it is, nothing removes it
CopyWriteFail(w) ==
  /\ wk[w].pc = "copy_write"
  /\ Goto(w, "failed_read")
  /\ Log(wk[w].file, "copy!")
  /\ UNCHANGED <<report, destTree, queue, takenBy, written>>
  /\ WorkerFrame

\* variant of CleanExifOk: the metadata is rewritten in the source file,
\* image.path, and not in the copy
CleanExifOk_inPlace(w) ==
  /\ wk[w].pc = "clean_exif"
  /\ Goto(w, "copied_read")
  /\ written' = written \cup {SrcAbs(wk[w].file)}
  /\ Log(wk[w].file, "exif")
  /\ UNCHANGED <<report, destTree, queue, takenBy>>
  /\ WorkerFrame

\* _clean_exif: load, build the minimal EXIF, dump, insert into dst_path.
\* piexif.load raises on a file that is not a complete JPEG (one that another
\* copy has just truncated), so this step needs the file whole.
CleanExifOk(w) ==
  /\ wk[w].pc = "clean_exif"
  /\ wk[w].dst \in DOMAIN destTree
  /\ destTree[wk[w].dst].whole
  /\ Goto(w, "copied_read")
  /\ destTree' = [destTree EXCEPT ![wk[w].dst].exif = "stripped",
                                  ![wk[w].dst].meta = CleanExif(@)]
  /\ written' = written \cup {DstAbs(wk[w].dst)}
  /\ Log(wk[w].file, "exif")
  /\ UNCHANGED <<report, queue, takenBy>>
  /\ WorkerFrame

\* variant of CleanExifFail: the copy is removed when its sanitize step fails
CleanExifFail_rollback(w) ==
  /\ wk[w].pc = "clean_exif"
  /\ Goto(w, "exif_failed_read")
  /\ destTree' = [p \in DOMAIN destTree \ {wk[w].dst} |-> destTree[p]]
  /\ Log(wk[w].file, "exif!")
  /\ UNCHANGED <<report, queue, takenBy, written>>
  /\ WorkerFrame

\* variant of CleanExifFail: the error reaches the handler of _process_file
CleanExifFail_raises(w) ==
  /\ wk[w].pc = "clean_exif"
  /\ Goto(w, "failed_read")
  /\ Log(wk[w].file, "exif!")
  /\ UNCHANGED <<report, destTree, queue, takenBy, written>>
  /\ WorkerFrame

\* _clean_exif: piexif raises; except Exception inside _clean_exif
CleanExifFail(w) ==
  /\ wk[w].pc = "clean_exif"
  /\ Goto(w, "exif_failed_read")
  /\ Log(wk[w].file, "exif!")
  /\ UNCHANGED <<report, destTree, queue, takenBy, written>>
  /\ WorkerFrame

(* ------------------- self.report.<counter> += 1 ------------------------ *)
ReadPcs == {"ignored_read", "copied_read", "failed_read", "exif_failed_read"}
WritePcs == {"ignored_write", "copied_write", "failed_write", "exif_failed_write"}

\* the counter an increment at this pc is about
CounterAt(pc) ==
  IF pc \in {"ignored_read", "ignored_write"} THEN "ignored"
  ELSE IF pc \in {"copied_read", "copied_write"} THEN "copied"
  ELSE "failed"

WritePcOf(pc) ==
  CASE pc = "ignored_read" -> "ignored_write"
    [] pc = "copied_read" -> "copied_write"
    [] pc = "failed_read" -> "failed_write"
    [] pc = "exif_failed_read" -> "exif_failed_write"

\* where control goes after the increment: _clean_exif returns to the
\* statements after its call, every other increment ends _process_file
AfterInc(pc) == IF pc = "exif_failed_write" THEN "copied_read" ELSE "idle"

\* the load of `self.report.x += 1`; no lock is held
IncRead(w) ==
  /\ wk[w].pc \in ReadPcs
  /\ wk' = [wk EXCEPT ![w].pc = WritePcOf(wk[w].pc),
                      ![w].tmp = report[CounterAt(wk[w].pc)]]
  /\ UNCHANGED <<report, destTree, queue, trace, takenBy, written>>
  /\ WorkerFrame

\* the store of `self.report.x += 1`
IncWrite(w) ==
  /\ wk[w].pc \in WritePcs
  /\ report' = [report EXCEPT ![CounterAt(wk[w].pc)] = wk[w].tmp + 1]
  /\ Log(wk[w].file, CounterAt(wk[w].pc))
  /\ wk' = [wk EXCEPT ![w] = IF AfterInc(wk[w].pc) = "idle" THEN IdleWorker
                             ELSE [@ EXCEPT !.pc = AfterInc(wk[w].pc)]]
  /\ UNCHANGED <<destTree, queue, takenBy, written>>
  /\ WorkerFrame

WorkerStep(w) ==
  \/ Take(w)
  \/ DigestOk(w) \/ DigestFail(w)
  \/ CheckIndex(w)
  \/ CopyOpenOk(w) \/ CopyOpenFail(w)
  \/ CopyWriteOk(w) \/ CopyWriteFail(w)
  \/ CleanExifOk(w) \/ CleanExifFail(w)
  \/ IncRead(w) \/ IncWrite(w)

MainStep ==
  \/ RunSetup \/ RunSetupFail \/ RunReturn \/ Interrupt \/ ShutdownDone
  \/ CliFinally

\* one invocation of the command
Next ==
  \/ MainStep
  \/ \E w \in Workers : WorkerStep(w)

Spec == Init /\ [][Next]_vars

\* invocations in sequence on the same trees, with a pool of one thread
InitTwice == Init /\ worker = 1

NextTwice == Next \/ Rerun

TwiceSpec == InitTwice /\ [][NextTwice]_vars

\* Every thread of the pool that can take a step is eventually scheduled, and
\* the main thread leaves run() once the pool has drained.  Nothing forces an
\* interrupt, a further invocation, or the start of the run.
Fairness ==
  /\ \A w \in 1..MaxWorkers : WF_vars(w \in Workers /\ WorkerStep(w))
  /\ WF_vars(RunReturn)
  /\ WF_vars(ShutdownDone)
  /\ WF_vars(CliFinally)

FairSpec == Init /\ [][Next]_vars /\ Fairness

TypeOK ==
  /\ worker \in 1..MaxWorkers
  /\ report.copied \in Nat /\ report.ignored \in Nat /\ report.failed \in Nat
  /\ mainPc \in {"start", "pool", "shutdown", "returned", "except_kb",
                 "except", "done"}

(* --------------------- _sha1_file called on its own --------------------- *)
RECURSIVE SeqsUpTo(_)
SeqsUpTo(n) ==
  IF n = 0 THEN {<<>>}
  ELSE LET shorter == SeqsUpTo(n - 1)
       IN shorter \cup {Append(s, b) : s \in {t \in shorter : Len(t) = n - 1},
                                        b \in Bytes}

\* the pipeline as constructed and not started
PipelineIdle ==
  /\ worker = 1
  /\ hash_sample_size = None
  /\ report = NewReport
  /\ destTree = EmptyTree
  /\ mainPc = "start"
  /\ files = <<>>
  /\ existing_hashes = {}
  /\ queue = <<>>
  /\ wk = [w \in 1..MaxWorkers |-> IdleWorker]
  /\ interrupts = 0
  /\ displays = 0
  /\ shown = NewReport
  /\ run = 1
  /\ trace = [f \in FileIds |-> <<>>]
  /\ takenBy = [f \in FileIds |-> <<>>]
  /\ prev = [returned |-> FALSE, clean |-> FALSE]
  /\ written = {}

\* a call _sha1_file(filepath, buffer_size, sample_size) about to enter its loop
InitSha ==
  /\ PipelineIdle
  /\ \E content \in SeqsUpTo(MaxFileLen), buffer_size \in 1..MaxBuffer,
        sample_size \in {None} \cup 0..MaxSample :
       sha = [content |-> content, buffer_size |-> buffer_size,
              sample_size |-> sample_size, st |-> ShaStart(sample_size),
              result |-> <<>>]

PipelineFrame ==
  UNCHANGED <<worker, hash_sample_size, report, destTree, mainPc, files,
              existing_hashes, queue, wk, interrupts, displays, shown, run,
              trace, takenBy, prev, written>>

\* one iteration of the read loop
ShaStep ==
  /\ sha.st.pc = "loop"
  /\ sha' = [sha EXCEPT !.st = ShaIter(sha.content, sha.buffer_size, sha.st)]
  /\ PipelineFrame

\* sha1 = h.hexdigest(); return sha1
ShaReturn ==
  /\ sha.st.pc = "done"
  /\ sha' = [sha EXCEPT !.st.pc = "returned", !.result = Sha1Hex(sha.st.fed)]
  /\ PipelineFrame

NextSha == ShaStep \/ ShaReturn

\* the loop runs on its own thread, which is scheduled until it returns
ShaSpec == InitSha /\ [][NextSha]_vars /\ WF_vars(NextSha)

(* ============================ properties =============================== *)
Counters == {"copied", "ignored", "failed"}

Has(f, e) == LET t == trace[f] IN \E k \in DOMAIN t : t[k] = e
Count(f, e) == Cardinality({k \in 1..Len(trace[f]) : trace[f][k] = e})

\* the counter increments performed for file f, in order
CounterEvents(f) == SelectSeq(trace[f], LAMBDA e : e \in Counters)

\* the steps of f after its call of _clean_exif began
RECURSIVE DropUntil(_, _)
DropUntil(t, es) ==
  IF t = <<>> THEN <<>>
  ELSE IF Head(t) \in es THEN Tail(t) ELSE DropUntil(Tail(t), es)

\* f was started and its _process_file call is over
Finished(f) ==
  /\ takenBy[f] # <<>>
  /\ \A w \in 1..MaxWorkers : wk[w].file # f

\* the bytes of f that a sample limit of n lets the digest see
SamplePrefix(f, n) ==
  LET c == SourceTree[f].content
  IN IF n = None THEN c ELSE SubSeq(c, 1, Min(n, Len(c)))

\* the short digest of each source file under each sample limit
ShortTable ==
  [f \in FileIds |->
     [n \in SampleSizes |-> SubSeq(Sha1Hex(SamplePrefix(f, n)), 1, 12)]]

\* the short digest of source file f in this run
ShortOf(f) == ShortTable[f][hash_sample_size]

\* dest / directory of f relative to the source root / digest name
ExpectedDstTable ==
  [f \in FileIds |->
     [n \in SampleSizes |->
        [dir |-> SourceTree[f].dir,
         name |-> ShortTable[f][n] \o Lower(Suffix(SourceTree[f].name))]]]

ExpectedDst(f) == ExpectedDstTable[f][hash_sample_size]

InIndex(f) == ShortOf(f) \in existing_hashes

CopyFailed(f) == Has(f, "copy_open!") \/ Has(f, "copy!")

\* no other file of this run opened the destination path of f
SoleWriter(f) ==
  \A g \in FileIds \ {f} :
    ~(Has(g, "copy_open") /\ ExpectedDst(g) = ExpectedDst(f))

RECURSIVE SumCount(_, _)
SumCount(c, S) ==
  IF S = {} THEN 0
  ELSE LET f == CHOOSE x \in S : TRUE
       IN Count(f, c) + SumCount(c, S \ {f})

\* C1: when run() has returned, copied + ignored + failed equals the number
\* of candidate files that were discovered and dispatched.
C1_Partition ==
  mainPc = "returned" =>
    report.copied + report.ignored + report.failed = Len(files)

\* C2: a file whose copy succeeded and whose sanitize step failed was counted
\* as failed exactly once and not as copied, and its copy is still in place.
C2_SanitizeFailureNotCopied ==
  \A f \in FileIds :
    (Has(f, "exif!") /\ Finished(f)) =>
      /\ Count(f, "failed") = 1
      /\ Count(f, "copied") = 0
      /\ ExpectedDst(f) \in DOMAIN destTree

\* C3: when run() has returned, each counter equals the number of increment
\* operations the workers performed on it (no increment is lost).
C3_NoLostUpdate ==
  mainPc = "returned" =>
    \A c \in Counters : report[c] = SumCount(c, FileIds)

IsPrefixOf(a, b) == Len(a) <= Len(b) /\ a = SubSeq(b, 1, Len(a))

C4_Steps ==
  \A f \in FileIds :
    Has(f, "digest") /\ Len(trace[f]) >= 2 =>
      IF InIndex(f)
        THEN /\ IsPrefixOf(trace[f], <<"digest", "hit", "ignored">>)
             /\ Finished(f) => trace[f] = <<"digest", "hit", "ignored">>
        ELSE ~Has(f, "ignored") /\ ~Has(f, "hit")

C4_Counter ==
  (worker = 1 /\ mainPc = "returned") =>
    report.ignored = Cardinality({f \in FileIds : Has(f, "digest") /\ InIndex(f)})

C4_Frame ==
  \A w \in 1..MaxWorkers :
    (wk[w].file # 0 /\ wk'[w] # wk[w]
       /\ Has(wk[w].file, "digest") /\ InIndex(wk[w].file))
    => destTree' = destTree

\* C4: a file whose short digest is in the Destination Index goes through
\* digest, index check and one increment of `ignored` and nothing else, and no
\* step of its processing changes the destination tree; a file whose short
\* digest is not in the index is never counted as ignored.
C4_SkipExisting == [](C4_Steps /\ C4_Counter) /\ [][C4_Frame]_vars

\* C4 witness: the run returned with one file skipped as existing and
\* another one copied.
C4_Witness ==
  /\ mainPc = "returned"
  /\ report.ignored = 1
  /\ \E f, g \in FileIds :
       /\ trace[f] = <<"digest", "hit", "ignored">>
       /\ Has(g, "copy") /\ Has(g, "copied")

\* the counter increments of g as its own steps determine them
OwnOutcome(g) ==
  IF Has(g, "digest!") THEN <<"failed">>
  ELSE IF InIndex(g) THEN <<"ignored">>
  ELSE IF CopyFailed(g) THEN <<"failed">>
  ELSE IF Has(g, "exif!") THEN <<"failed", "copied">>
  ELSE <<"copied">>

C5_Common(f) ==
  /\ CounterEvents(f) = <<"failed">>
  /\ ~Has(f, "exif") /\ ~Has(f, "exif!")
  /\ \A g \in FileIds \ {f} : Finished(g) => CounterEvents(g) = OwnOutcome(g)

\* C5 as stated: a file whose copy failed was counted as failed once and as
\* nothing else, was never sanitized, has no destination file created for it,
\* and the other files' outcomes are their own.
C5_Original ==
  \A f \in FileIds :
    (CopyFailed(f) /\ Finished(f)) =>
      /\ C5_Common(f)
      /\ SoleWriter(f) => ExpectedDst(f) \notin DOMAIN destTree

\* C5 amended: a file whose copy failed was counted as failed once and as
\* nothing else and was never sanitized, and the other files' outcomes are
\* their own; no destination file is created for it when the copy fails
\* before the destination is opened, while a copy that fails after that
\* leaves the file it created at the destination path.
C5_CopyFailure ==
  \A f \in FileIds :
    (CopyFailed(f) /\ Finished(f)) =>
      /\ C5_Common(f)
      /\ (Has(f, "copy_open!") /\ SoleWriter(f))
           => ExpectedDst(f) \notin DOMAIN destTree
      /\ (Has(f, "copy!") /\ SoleWriter(f))
           => /\ ExpectedDst(f) \in DOMAIN destTree
              /\ ~destTree[ExpectedDst(f)].whole

\* C5 witness: the run returned, one file's copy failed before the
\* destination was opened and another file was copied.
C5_Witness ==
  /\ mainPc = "returned"
  /\ \E f, g \in FileIds :
       /\ f # g
       /\ trace[f] = <<"digest", "miss", "copy_open!", "failed">>
       /\ ExpectedDst(f) \notin DOMAIN destTree
       /\ CounterEvents(g) = <<"copied">>

C6_Safe ==
  /\ \A w \in 1..MaxWorkers :
       wk[w].pc \in {"idle", "digest", "check", "copy_open", "copy_write",
                     "clean_exif"} \cup ReadPcs \cup WritePcs
  /\ \A f \in FileIds :
       /\ Len(takenBy[f]) <= 1
       /\ ((Has(f, "digest!") \/ CopyFailed(f)) /\ Finished(f))
            => CounterEvents(f) = <<"failed">>
  /\ mainPc = "except" => files = <<>>
  /\ mainPc = "except_kb" => interrupted
  /\ mainPc = "returned" =>
       /\ files = ScanSource
       /\ \A i \in 1..Len(files) :
            /\ Len(takenBy[files[i]]) = 1
            /\ Finished(files[i])
            /\ CounterEvents(files[i]) # <<>>
       /\ \A f \in FileIds \ Range(files) : takenBy[f] = <<>>

\* run() is left, by a return unless an interrupt occurred (see C6_Safe)
C6_Live == (mainPc = "pool") ~> (mainPc \in {"returned", "except_kb"})

\* C6: a digest or copy failure of a file becomes one `failed` increment in
\* the worker and never reaches the main thread; every file is started at
\* most once; once the files are dispatched, run() eventually returns unless
\* it is interrupted, and when it returns every dispatched file has been
\* processed exactly once by one worker.
C6_IsolationAndCompletion == []C6_Safe /\ C6_Live

\* C6 witness: run() returned after two workers processed the files, one
\* file failing in its digest, one in its copy, one being copied.
C6_Witness ==
  /\ mainPc = "returned"
  /\ worker = 2
  /\ \E f, g, h \in FileIds :
       /\ trace[f] = <<"digest!", "failed">>
       /\ CopyFailed(g) /\ CounterEvents(g) = <<"failed">>
       /\ CounterEvents(h) = <<"copied">>
       /\ takenBy[f] # takenBy[g]

C8_Steps ==
  \A f \in FileIds :
    /\ Has(f, "exif!") =>
         /\ IsPrefixOf(DropUntil(trace[f], {"exif!"}), <<"failed", "copied">>)
         /\ Finished(f) => DropUntil(trace[f], {"exif!"}) = <<"failed", "copied">>
    /\ Has(f, "exif") =>
         /\ IsPrefixOf(DropUntil(trace[f], {"exif"}), <<"copied">>)
         /\ Finished(f) => DropUntil(trace[f], {"exif"}) = <<"copied">>

C8_Frame ==
  \A w \in 1..MaxWorkers :
    (wk[w].pc \in {"clean_exif", "exif_failed_read", "exif_failed_write"}
       /\ wk'[w] # wk[w])
    => IF wk[w].pc = "exif_failed_write"
         THEN /\ report' = [report EXCEPT !.failed = wk[w].tmp + 1]
              /\ worker = 1 => report'.failed = report.failed + 1
              /\ wk'[w].pc = "copied_read"
         ELSE /\ report' = report
              /\ wk'[w].pc \in {"copied_read", "exif_failed_read",
                                "exif_failed_write"}

\* C8: _clean_exif never raises to its caller: after a metadata failure it
\* increments report.failed once and control returns to the statements after
\* the call in _process_file; a successful _clean_exif changes no counter.
C8_SelfReporting == []C8_Steps /\ [][C8_Frame]_vars

\* C8 witness: a file whose sanitize step failed has finished, with `failed`
\* incremented inside _clean_exif and _process_file resumed after the call.
C8_Witness ==
  \E f \in FileIds :
    /\ Finished(f)
    /\ trace[f] = <<"digest", "miss", "copy_open", "copy", "exif!",
                    "failed", "copied">>
    /\ report.failed = 1

\* the first min(N, size) bytes of the file, all of them without a limit
ShaPrefix ==
  IF sha.sample_size = None THEN sha.content
  ELSE SubSeq(sha.content, 1, Min(sha.sample_size, Len(sha.content)))

C9_Safe ==
  /\ IsPrefixOf(sha.st.fed, sha.content)
  /\ sha.st.pos = Len(sha.st.fed)
  /\ sha.st.iters <= Len(sha.content) + 1
  /\ sha.st.pc \in {"done", "returned"} => sha.st.fed = ShaPrefix
  /\ sha.st.pc = "returned" => sha.result = Sha1Hex(ShaPrefix)

\* C9: _sha1_file feeds the hash exactly the first min(N, file size) bytes of
\* the file, in order and once each (every byte when there is no limit), its
\* result is the digest of that prefix, and the loop terminates.
C9_SamplingCorrect == []C9_Safe /\ <>(sha.st.pc = "returned")

\* C9 witness: a call returned whose limit is below the file size and above
\* the buffer size, so that the last chunk was cut to reach the limit.
C9_Witness ==
  /\ sha.st.pc = "returned"
  /\ sha.sample_size = 3 /\ sha.buffer_size = 2 /\ Len(sha.content) = 3
  /\ sha.st.iters = 2
  /\ sha.st.fed = sha.content

InitialPaths == UNION {DOMAIN t : t \in InitialDests}

\* ^[0-9a-f]{12}\.(jpg|jpeg)$
LeafMatches(name) ==
  /\ Len(name) > 12
  /\ \A i \in 1..12 : name[i] \in HexLowerSet
  /\ SubSeq(name, 13, Len(name))
       \in { <<".","j","p","g">>, <<".","j","p","e","g">> }

\* C10: every destination path a file is copied to is the destination root
\* joined with the file's directory relative to the source root, with leaf
\* <short digest><lower-cased extension>; the leaf matches
\* ^[0-9a-f]{12}\.(jpg|jpeg)$ and starts with the file's short digest.
C10_Naming ==
  /\ \A w \in 1..MaxWorkers :
       wk[w].dst # NoPath =>
         /\ wk[w].dst = ExpectedDst(wk[w].file)
         /\ LeafMatches(wk[w].dst.name)
         /\ SubSeq(wk[w].dst.name, 1, 12) = ShortOf(wk[w].file)
  /\ \A p \in DOMAIN destTree \ InitialPaths :
       /\ LeafMatches(p.name)
       /\ \E f \in Range(files) : Has(f, "copy_open") /\ p = ExpectedDst(f)
  /\ \A f \in FileIds : Has(f, "copy") => ExpectedDst(f) \in DOMAIN destTree

\* C10 witness: the file two.JPEG of directory b was copied and counted, and
\* its copy is in directory b under a name ending in .jpeg.
C10_Witness ==
  /\ trace[2] = <<"digest", "miss", "copy_open", "copy", "exif", "copied">>
  /\ \E p \in DOMAIN destTree :
       /\ p.dir = <<"b">>
       /\ SubSeq(p.name, 13, Len(p.name)) = <<".","j","p","e","g">>
       /\ destTree[p].content = SourceTree[2].content

\* what the allow-list keeps of metadata m: the Orientation tag and the ICC
\* profile, each as it was (None when it was absent), and nothing else
Allowed(m) == Meta(m.orientation, {}, m.icc)

\* C11: after a successful _clean_exif on the copy of a file, the copy's
\* metadata is exactly the Orientation tag and the ICC profile of the
\* original, each with its original value if the original had it and absent
\* if it had not, and no other tag of the original.
C11_AllowList ==
  \A f \in FileIds :
    (Has(f, "exif") /\ SoleWriter(f)) =>
      /\ ExpectedDst(f) \in DOMAIN destTree
      /\ destTree[ExpectedDst(f)].meta = Allowed(SourceTree[f].meta)

\* C11 for the files whose Orientation tag, if present, is not 0
C11_NonZeroOrientation ==
  \A f \in FileIds :
    (Has(f, "exif") /\ SoleWriter(f) /\ SourceTree[f].meta.orientation # 0) =>
      /\ ExpectedDst(f) \in DOMAIN destTree
      /\ destTree[ExpectedDst(f)].meta = Allowed(SourceTree[f].meta)

\* C12 as stated: the report is displayed exactly once per run, at a point
\* where every worker has finished, and no counter changes after the display;
\* on a normal return of run(), on an error and on an interrupt alike.
C12_Original ==
  /\ displays <= 1
  /\ mainPc = "done" <=> displays = 1
  /\ displays = 1 => AllIdle /\ queue = <<>> /\ report = shown

\* C12 amended: the report is displayed exactly once per run; when run()
\* returned, raised an error, or was interrupted once, the display comes
\* after every worker has finished and no counter changes after it.  (A
\* second interrupt, raised while the executor shuts down, brings the display
\* forward to a point where workers may still be running.)
C12_ReportFinality ==
  /\ displays <= 1
  /\ mainPc = "done" <=> displays = 1
  /\ (displays = 1 /\ interrupts <= 1) =>
       AllIdle /\ queue = <<>> /\ report = shown

\* C12 witness: a run interrupted once has displayed its report, after a
\* file was copied and counted and before another one was started.
C12_Witness ==
  /\ displays = 1 /\ interrupts = 1
  /\ shown = report /\ report.copied = 1
  /\ \E f \in Range(files) : takenBy[f] = <<>>
  /\ \E g \in Range(files) : CounterEvents(g) = <<"copied">>

\* no step of f failed
NoFailure(f) ==
  \A k \in 1..Len(trace[f]) :
    trace[f][k] \notin {"digest!", "copy_open!", "copy!", "exif!"}

\* whether f and g are distinct candidates with the same digest, per sample
\* limit
SameDigest ==
  [n \in SampleSizes |->
     [f \in FileIds |->
        [g \in FileIds |->
           /\ f # g
           /\ IsCandidate(SourceTree[f].name) /\ IsCandidate(SourceTree[g].name)
           /\ Sha1Hex(SamplePrefix(f, n)) = Sha1Hex(SamplePrefix(g, n))]]]

\* whether f and g have the same directory relative to the source root and
\* the same lower-cased extension
SameDirAndExtension ==
  [f \in FileIds |->
     [g \in FileIds |->
        /\ SourceTree[f].dir = SourceTree[g].dir
        /\ Lower(Suffix(SourceTree[f].name)) = Lower(Suffix(SourceTree[g].name))]]

\* distinct candidates of this run with the same digest, which the
\* Destination Index does not hold
Twins(f, g) ==
  /\ files # <<>>
  /\ SameDigest[hash_sample_size][f][g]
  /\ ~InIndex(f)

\* whether some other candidate has the digest of f, per sample limit
HasTwin ==
  [n \in SampleSizes |-> [f \in FileIds |-> \E g \in FileIds : SameDigest[n][f][g]]]

\* whether, per sample limit, the candidates with the same digest that share
\* a destination path are those with the same directory and extension
TwinPathsByDirAndExtension ==
  [n \in SampleSizes |->
     \A f, g \in FileIds :
       SameDigest[n][f][g] =>
         (ExpectedDstTable[f][n] = ExpectedDstTable[g][n]
            <=> SameDirAndExtension[f][g])]

\* f and the other files of this run that opened the destination path of f
SharingDst(f) ==
  {f} \cup {h \in FileIds : ExpectedDst(h) = ExpectedDst(f) /\ Has(h, "copy_open")}

\* C13 as stated: two source files with the same digest that the index does
\* not hold are both classified as not found, both copied to the same
\* destination path and both counted as copied, neither as ignored (read for
\* the runs in which no step of either file fails).
C13_Original ==
  \A f, g \in FileIds :
    (Twins(f, g) /\ Finished(f) /\ Finished(g) /\ NoFailure(f) /\ NoFailure(g))
    => /\ Has(f, "miss") /\ ~Has(f, "ignored")
       /\ CounterEvents(f) = <<"copied">>
       /\ ExpectedDst(f) = ExpectedDst(g)

\* C13 amended: two source files with the same digest that the index does
\* not hold are both classified as not found and neither is ever counted as
\* ignored, also when the copy of the other is already in the destination
\* tree; each is counted as copied once unless its own digest or copy fails.
\* Their destination paths are the same exactly when they have the same
\* directory relative to the source root and the same lower-cased extension;
\* then one file at that path stands for both, and once every file copied to
\* a path is done with no failure, the file there is complete and holds the
\* content of one of them.
C13_StaleIndex ==
  files # <<>> =>
    /\ TwinPathsByDirAndExtension[hash_sample_size]
    /\ \A f \in FileIds :
         (HasTwin[hash_sample_size][f] /\ ~InIndex(f)) =>
           /\ ~Has(f, "hit") /\ ~Has(f, "ignored")
           /\ (Has(f, "digest") /\ Len(trace[f]) >= 2) => Has(f, "miss")
           /\ (Finished(f) /\ ~Has(f, "digest!") /\ ~CopyFailed(f))
                => Count(f, "copied") = 1
           /\ (Finished(f) /\ NoFailure(f)) => CounterEvents(f) = <<"copied">>
           /\ (/\ Finished(f) /\ NoFailure(f)
               /\ \A h \in SharingDst(f) : Finished(h) /\ NoFailure(h)) =>
                /\ ExpectedDst(f) \in DOMAIN destTree
                /\ destTree[ExpectedDst(f)].whole
                /\ destTree[ExpectedDst(f)].content
                     \in {SourceTree[h].content : h \in SharingDst(f)}

\* C13 witness: with one worker and a sample limit of one byte, one.jpg and
\* tri.jpg were both copied and counted, and the one file at their common
\* destination path holds the content of tri.jpg, written second.
C13_Witness ==
  /\ worker = 1 /\ hash_sample_size = 1
  /\ Twins(1, 3)
  /\ CounterEvents(1) = <<"copied">> /\ CounterEvents(3) = <<"copied">>
  /\ ExpectedDst(1) = ExpectedDst(3)
  /\ destTree[ExpectedDst(1)].content = SourceTree[3].content
  /\ SourceTree[3].content # SourceTree[1].content

\* the destination tree as the run found it: the files no step has written
FoundTree ==
  [p \in {q \in DOMAIN destTree : DstAbs(q) \notin written} |-> destTree[p]]

\* the fingerprints of each tree a run may start from
InitialIndex == [t \in InitialDests |-> BuildIndex(t)]

C14_BuiltFirst ==
  /\ mainPc = "start" =>
       /\ existing_hashes = {}
       /\ \A f \in FileIds : takenBy[f] = <<>>
       /\ \A w \in 1..MaxWorkers : wk[w] = IdleWorker
  /\ (\E f \in FileIds : takenBy[f] # <<>>) =>
       /\ FoundTree \in InitialDests
       /\ existing_hashes = InitialIndex[FoundTree]

C14_Frame ==
  (mainPc # "start" /\ mainPc' # "start") => existing_hashes' = existing_hashes

\* C14: the Destination Index is built before the first worker starts, from
\* the destination tree as the run found it, and no step after that changes
\* it, whatever files the workers create.
C14_IndexFrozen == []C14_BuiltFirst /\ [][C14_Frame]_vars

\* C14 witness: a worker has copied a file whose short digest the index does
\* not hold, while an index built now from the destination tree would.
C14_Witness ==
  \E f \in FileIds :
    /\ Has(f, "copy")
    /\ ShortOf(f) \notin existing_hashes
    /\ ShortOf(f) \in BuildIndex(destTree)

\* the orders in which the steps and the counter increments of a file occur
StepOrders ==
  { <<"digest!", "failed">>,
    <<"digest", "hit", "ignored">>,
    <<"digest", "miss", "copy_open!", "failed">>,
    <<"digest", "miss", "copy_open", "copy!", "failed">>,
    <<"digest", "miss", "copy_open", "copy", "exif", "copied">>,
    <<"digest", "miss", "copy_open", "copy", "exif!", "failed", "copied">> }

\* the beginnings of those orders: what a file in progress has done so far
StepPrefixes ==
  UNION {{SubSeq(t, 1, k) : k \in 0..Len(t)} : t \in StepOrders}

\* C15: the steps of a file occur in the order digest, index check, copy,
\* sanitize: a check only after a successful digest, a copy only after a
\* check that found nothing, a sanitize only after a completed copy; counter
\* increments come after the last step performed, and end the processing.
C15_StepOrder ==
  \A f \in FileIds :
    /\ trace[f] \in StepPrefixes
    /\ Finished(f) => trace[f] \in StepOrders

\* C15 witness: one file went through all four steps and was counted while
\* another one, started later, has completed its copy and not its sanitize.
C15_Witness ==
  \E f, g \in FileIds :
    /\ trace[f] = <<"digest", "miss", "copy_open", "copy", "exif", "copied">>
    /\ trace[g] = <<"digest", "miss", "copy_open", "copy">>

\* C18: a file for which `copied` was incremented has a file at its
\* destination path, in every state from the increment on, also when several
\* source files have the same destination path.
C18_CopiedHasFile ==
  \A f \in FileIds : Has(f, "copied") => ExpectedDst(f) \in DOMAIN destTree

\* C18 witness: two workers have counted two files with the same destination
\* path as copied, and a file is at that path.
C18_Witness ==
  /\ worker = 2
  /\ \E f, g \in FileIds :
       /\ f # g /\ takenBy[f] # takenBy[g]
       /\ Has(f, "copied") /\ Has(g, "copied")
       /\ ExpectedDst(f) = ExpectedDst(g)
       /\ ExpectedDst(f) \in DOMAIN destTree

\* the absolute paths of the files of the source tree
SourcePaths == {SrcAbs(f) : f \in FileIds}

\* C19: with the destination root outside the source root, every path the
\* run creates or writes is the destination path of a file it copied, under
\* the destination root; no path under the source root is written.
C19_SourceUntouched ==
  /\ written \cap SourcePaths = {}
  /\ \A a \in written :
       /\ IsPrefixOf(DestRoot, a.dir)
       /\ ~IsPrefixOf(SourceRoot, a.dir)
       /\ \E f \in FileIds : Has(f, "copy_open") /\ a = DstAbs(ExpectedDst(f))

\* C19 witness: the run returned after copying and sanitizing files into two
\* directories of the destination tree.
C19_Witness ==
  /\ mainPc = "returned"
  /\ Cardinality(written) >= 2
  /\ \E f, g \in FileIds :
       /\ Has(f, "exif") /\ Has(g, "exif")
       /\ SourceTree[f].dir # SourceTree[g].dir
       /\ DstAbs(ExpectedDst(f)) \in written
       /\ DstAbs(ExpectedDst(g)) \in written

C16_Caught ==
  interrupted =>
    /\ mainPc \in {"shutdown", "except_kb", "done"}
    /\ mainPc = "done" => displays = 1

C16_NoNewStart == interrupted => takenBy' = takenBy

C16_Cancelled ==
  /\ interrupts' # interrupts => queue' \in {<<>>, queue}
  /\ (interrupted /\ queue = <<>>) => takenBy' = takenBy

C16_Step ==
  /\ interrupts' # interrupts =>
       wk' = wk /\ report' = report /\ destTree' = destTree /\ trace' = trace
  /\ displays' # displays => shown' = report

\* C16 as stated: after an interrupt during run() no further file is
\* started; the interrupt changes nothing of the operations in progress; it
\* reaches the KeyboardInterrupt handler of the command and no other, and the
\* report is displayed, with the counters as they are then.
C16_Original == []C16_Caught /\ [][C16_NoNewStart /\ C16_Step]_vars

C16_Live ==
  interrupted ~> (mainPc = "done" /\ displays = 1 /\ AllIdle /\ queue = <<>>)

\* C16 amended: an interrupt during run() cancels the files not yet started
\* when it is raised inside the result iterator, and from then on no further
\* file is started; raised elsewhere in run() it cancels nothing and the pool
\* goes on to process the files submitted.  Either way it changes nothing of
\* the operations in progress, which run to their end; it reaches the
\* KeyboardInterrupt handler of the command and no other, and the report is
\* displayed, with the counters as they are then.
C16_Interruption ==
  []C16_Caught /\ [][C16_Cancelled /\ C16_Step]_vars /\ C16_Live

\* C16 witness: two workers were interrupted once with a file still queued;
\* the file was never started, one file in progress went on to fail in its
\* copy, another to be copied, and the report was displayed after that.
C16_Witness ==
  /\ worker = 2 /\ interrupts = 1 /\ mainPc = "done" /\ AllIdle
  /\ shown = report
  /\ \E f, g, h \in Range(files) :
       /\ takenBy[f] = <<>>
       /\ CopyFailed(g) /\ CounterEvents(g) = <<"failed">>
       /\ CounterEvents(h) = <<"copied">>

(* ------------------- the Destination Index on its own ------------------- *)
\* File names a destination tree may hold: an optional lead, a run of 11, 12
\* or 13 hex characters in either case, an optional tail, an optional suffix.
NameLeads ==
  { <<>>, <<"1","2","_">>, <<"7">>, <<"x","_">>, <<"I","M","G">>,
    <<"1","2","3","4","5","6","7","8","9","0","1","2","_">> }

NameRuns ==
  { <<"a","b","c","d","e","f","0","1","2","3","4">>,
    <<"a","b","c","d","e","f","0","1","2","3","4","5">>,
    <<"A","B","C","d","e","f","0","1","2","3","4","5">>,
    <<"a","b","c","d","e","f","0","1","2","3","4","5","6">> }

NameTails == { <<>>, <<"_","1">>, <<"z">> }

NameSuffixes == { <<>>, <<".","j","p","g">>, <<".","P","N","G">> }

IndexTrees ==
  { OneFile(<<>>, lead \o hexrun \o tail \o suffix, DestFile(<<0>>, TRUE, "original", NoMeta)) :
      lead \in NameLeads, hexrun \in NameRuns, tail \in NameTails,
      suffix \in NameSuffixes }

\* a run about to start on a destination tree that holds one such file
InitIndex ==
  /\ worker = 1
  /\ hash_sample_size = None
  /\ report = NewReport
  /\ destTree \in IndexTrees
  /\ mainPc = "start"
  /\ files = <<>>
  /\ existing_hashes = {}
  /\ queue = <<>>
  /\ wk = [w \in 1..MaxWorkers |-> IdleWorker]
  /\ interrupts = 0
  /\ displays = 0
  /\ shown = NewReport
  /\ run = 1
  /\ trace = [f \in FileIds |-> <<>>]
  /\ takenBy = [f \in FileIds |-> <<>>]
  /\ prev = [returned |-> FALSE, clean |-> FALSE]
  /\ sha = ShaIdle
  /\ written = {}

\* run() up to the dispatch, or its failure
NextIndex == RunSetup \/ RunSetupFail

IndexSpec == InitIndex /\ [][NextIndex]_vars

\* the stem of the one file of the destination tree
TheStem == Stem((CHOOSE p \in DOMAIN destTree : TRUE).name)

\* the positions of s at which 12 hex characters of either case begin
HexWindows(s) ==
  {i \in 1..(Len(s) - 11) :
     \A k \in i..(i + 11) : s[k] \in HexLowerSet \cup {"A","B","C","D","E","F"}}

\* the length of a lead "<digits>_" of s, 0 when s has no such lead
LeadLen(s) ==
  IF \E n \in 2..Len(s) : s[n] = "_" /\ \A k \in 1..(n - 1) : s[k] \in DigitChars
    THEN CHOOSE n \in 2..Len(s) :
           s[n] = "_" /\ \A k \in 1..(n - 1) : s[k] \in DigitChars
    ELSE 0

\* C17 as stated: a destination file contributes a fingerprint only if its
\* stem is an optional lead of digits and an underscore followed by exactly
\* 12 hex characters; the fingerprint is these 12 characters lower-cased;
\* every other file name contributes nothing.
C17_Original ==
  mainPc = "pool" =>
    LET s == TheStem
    IN existing_hashes =
         IF Len(s) = LeadLen(s) + 12 /\ LeadLen(s) + 1 \in HexWindows(s)
           THEN {Lower(SubSeq(s, LeadLen(s) + 1, Len(s)))}
           ELSE {}

\* C17 amended: a destination file contributes a fingerprint if and only if
\* its stem holds 12 hex characters in a row, anywhere; the fingerprint is,
\* lower-cased, the 12 characters after a lead of digits and an underscore
\* when the stem begins with such a lead and 12 hex characters follow it, and
\* the leftmost 12 hex characters in a row of the stem otherwise.  Text
\* before or after them, and a hex run longer than 12, do not prevent it.
C17_Extraction ==
  mainPc = "pool" =>
    LET s == TheStem
        W == HexWindows(s)
        at == IF LeadLen(s) > 0 /\ LeadLen(s) + 1 \in W THEN LeadLen(s) + 1
              ELSE CHOOSE i \in W : \A j \in W : i <= j
    IN existing_hashes =
         IF W = {} THEN {} ELSE {Lower(SubSeq(s, at, at + 11))}

\* C17 witness: the index was built from a file whose stem has text before
\* a run of 13 hex characters, and holds the first 12 of them.
C17_Witness ==
  /\ mainPc = "pool"
  /\ TheStem = <<"I","M","G","a","b","c","d","e","f","0","1","2","3","4","5","6">>
  /\ existing_hashes = {<<"a","b","c","d","e","f","0","1","2","3","4","5">>}

====
